---- MODULE Spec2Model ----
(***************************************************************************)
(* Model of the SP-API transactions pipeline: the remote fetch client      *)
(* (spapi_client.py), the normalizer and the validator (validator.py), the *)
(* PostgreSQL store (database.py) and the save stage of concurrent         *)
(* pipeline runs (main.py).                                                *)
(*                                                                         *)
(* Durations are counted in ticks of 1/10 s (the mock client sleeps 0.1 s),*)
(* so the code's backoff of 1.0 s is Sec(1) and its ceiling of 60 is       *)
(* Sec(60).                                                                *)
(***************************************************************************)
EXTENDS Integers, Sequences, FiniteSets, TLC

----------------------------------------------------------------------------
(* Bounds of the model *)

MaxBatch == 2           \* longest batch handed to validate_transactions
MaxTicks == 1           \* seconds the clock advances
MaxSaveBatch == 2       \* longest batch handed to save_transactions
MaxSaves == 3           \* calls of save_transactions
MaxDbClock == 2         \* latest time of the database clock
MaxObservedSaves == 2   \* calls of save_transactions observed with their argument

MaxRetriesArg == 7      \* largest max_retries argument passed to a fetch
MaxCalls == 2           \* fetch calls made on one client
MaxRetryAfter == 2      \* largest numeric Retry-After header, in seconds
MaxPayload == 2         \* most transactions in a payload handed to normalize_transactions

(* Program constants *)

DEFAULT_MAX_RETRIES == 6
TicksPerSecond == 10
BackoffStart == 1       \* backoff = 1.0
BackoffCeiling == 60    \* min(backoff * 2, 60)
MockAuthPause == 1      \* time.sleep(0.1), in ticks
OldDays == 370          \* (now - posted_date).days > 370
SecondsPerDay == 86400
PageSize == 1000        \* execute_values(..., page_size=1000)

Sec(n) == n * TicksPerSecond

Min(a, b) == IF a <= b THEN a ELSE b

----------------------------------------------------------------------------
(* State *)

VARIABLES
    \* environment of the process
    requestsAvailable,  \* the `requests` import succeeded
    credsPresent,       \* LWA_CLIENT_ID, LWA_CLIENT_SECRET, LWA_REFRESH_TOKEN all set
    \* one fetch call (locals of list_transactions_real / list_transactions_mock)
    client,             \* "none" | "real" | "mock": whose call is described below
    fpc,                \* "idle" | "requesting" | "returned" | "raised"
    outcome,            \* result of the call: "none", a payload kind or an exception
    errStatus,          \* status carried by a raised HTTPError, 0 otherwise
    postedAfter,        \* the posted_after argument
    maxRetries,         \* the max_retries argument
    attempt,            \* loop counter `attempt` / `attempts`
    backoff,            \* `backoff`, in ticks
    tokenRefreshed,     \* `token_refreshed`
    token,              \* `token`: number of the token exchange that produced it, 0 = none
    scenario,           \* mock: `scenario`
    remaining401,       \* mock: `remaining_401`
    remaining429,       \* mock: `remaining_429`
    \* observations of the current call
    calls,              \* number of fetch calls started on the client
    gets,               \* GET requests issued
    tokenPosts,         \* POSTs to the token endpoint
    refreshes,          \* credential refreshes triggered by a 401
    sleeps,             \* time.sleep calls
    lastSleep,          \* duration of the sleep of the last attempt, -1 if it did not sleep
    lastStatus,         \* status of the last response, 0 if none
    lastRetryAfter,     \* Retry-After header of the last response
    lastGetToken,       \* token sent with the last GET
    lastBody,           \* body of the last response, "none" if none
    n401,               \* 401 responses received
    nBackoffRetries,    \* 429 and 5xx responses that were retried
    allRetried,         \* every attempt so far ended in `continue`
    only5xx,            \* every response so far was a 5xx
    \* clocks and time zone of the host
    clock,              \* datetime.now(timezone.utc), in seconds
    localUtcOffset,     \* UTC offset of the host's local time zone, in seconds
    \* the last call of validate_transactions
    vpc,                \* "idle" | "returned" | "raised"
    vexc,               \* the exception it raised, "none" otherwise
    vrows,              \* its argument `rows`
    vnow,               \* its local `now`
    valid,              \* returned valid_rows
    errors,             \* returned errors
    warnings,           \* returned warnings
    \* the last call of normalize_transactions
    npc,                \* "idle" | "returned" | "raised"
    npayload,           \* the transactions of its argument
    nexc,               \* the exception it raised, "none" otherwise
    nrows,              \* the rows it returned
    \* the database
    table,              \* rows of spapi_transactions
    dbClock,            \* now() of the database server
    saves,              \* calls of save_transactions made
    saveResult,         \* the last call: what it returned or that it raised
    saveArg,            \* the last observed call: its argument `transactions`
    lastUpsert,         \* per identifier, the values of the last committed upsert of it
    \* pipeline runs at their save stage, each on a connection of its own
    rpc,                \* "idle" | "connected" | "writing" | "saved" | "completed" |
                        \* "failed" (save_transactions raised) | "failed_late"
    rvalues,            \* `values` of the run
    rnext,              \* number of the next tuple of `values` the statement proposes
    rnow,               \* now() of the run's transaction: its start time
    work,               \* row versions the run's transaction wrote and has not committed
    \* one run of main
    mpc,                \* "start" | "fetching" | "validated" | "saved" | "skipped" |
                        \* "completed" | "failed" (main re-raised an exception)
    apiData,            \* `api_data`: the transactions of the payload
    savedData           \* `saved_data`: the rows get_saved_transactions returned

envVars == <<requestsAvailable, credsPresent>>

fetchVars == <<client, fpc, outcome, errStatus, postedAfter, maxRetries, attempt,
               backoff, tokenRefreshed, token, scenario, remaining401, remaining429,
               calls, gets, tokenPosts, refreshes, sleeps, lastSleep, lastStatus,
               lastRetryAfter, lastGetToken, lastBody, n401, nBackoffRetries,
               allRetried, only5xx>>

clockVars == <<clock, localUtcOffset>>

valVars == <<vpc, vexc, vrows, vnow, valid, errors, warnings>>

normVars == <<npc, npayload, nexc, nrows>>

runVars == <<rpc, rvalues, rnext, rnow, work>>

storeVars == <<table, dbClock, saves, saveResult, saveArg, lastUpsert>>

mainVars == <<mpc, apiData, savedData>>

vars == <<envVars, fetchVars, clockVars, valVars, normVars, storeVars, runVars,
          mainVars>>

----------------------------------------------------------------------------
(* Inputs of a fetch *)

\* A posted_after argument: a string made of a date part, a time part and a
\* zone designator, or a value that is no string at all (None).
Stamp(isStr, date, time, tz) == [isStr |-> isStr, date |-> date, time |-> time, tz |-> tz]

PostedAfterInputs ==
    { Stamp(TRUE, "valid", "valid", "Z"),         \* 2025-08-23T00:00:00Z
      Stamp(TRUE, "valid", "valid", "+00:00"),    \* 2025-08-23T00:00:00+00:00
      Stamp(TRUE, "valid", "none", "none"),       \* 2025-08-23
      Stamp(TRUE, "invalid", "valid", "Z"),       \* 2025-13-45T00:00:00Z
      Stamp(TRUE, "valid", "invalid", "Z"),       \* 2025-08-23T25:00:00Z
      Stamp(TRUE, "valid", "valid", "junk"),      \* 2025-08-23T00:00:00 UTC
      Stamp(TRUE, "invalid", "none", "none"),     \* "", "yesterday", 23/08/2025
      Stamp(FALSE, "none", "none", "none") }      \* None

\* dt_iso.replace("Z", "+00:00")
ReplaceZ(s) == [s EXCEPT !.tz = IF s.tz = "Z" THEN "+00:00" ELSE s.tz]

\* datetime.datetime.fromisoformat(text) returns instead of raising
FromIsoFormatOK(s) ==
    /\ s.date = "valid"
    /\ \/ s.time = "none" /\ s.tz = "none"
       \/ s.time = "valid" /\ s.tz \in {"none", "+00:00", "+05:00"}

\* mutant: only the type of the argument is checked
ValidIso8601Utc_TypeOnly(s) == s.isStr

\* The try block of _validate_iso8601_utc and of list_transactions_mock:
\* TRUE when no exception is caught (non-strings have no .replace).
ValidIso8601Utc(s) == s.isStr /\ FromIsoFormatOK(ReplaceZ(s))

RetryArgs == {0, 1, DEFAULT_MAX_RETRIES, MaxRetriesArg}

\* Retry-After header of a response
RetryAfter(kind, val) == [kind |-> kind, val |-> val]
NoRetryAfter == RetryAfter("absent", 0)
RetryAfterHeaders ==
    {NoRetryAfter, RetryAfter("empty", 0), RetryAfter("date", 0), RetryAfter("num", -1)}
        \cup {RetryAfter("num", Sec(r)) : r \in 0..MaxRetryAfter}

\* status codes a response can carry; requests hands back a 3xx response it
\* does not follow (304 Not Modified, a redirect without Location)
Statuses == {200, 204, 304, 400, 401, 403, 404, 429, 500, 503}
Bodies == {"transactions", "empty", "invalid"}

\* What one requests.get can produce: a response, or an exception of the
\* transport (timeout, connection error), written as status 0.
Response(status, ra, body) == [status |-> status, ra |-> ra, body |-> body]
Responses ==
    {Response(429, ra, "invalid") : ra \in RetryAfterHeaders}
        \cup {Response(s, NoRetryAfter, b) : s \in {200, 204, 304}, b \in Bodies}
        \cup {Response(s, NoRetryAfter, "invalid") : s \in (Statuses \ {200, 204, 304, 429}) \cup {0}}

----------------------------------------------------------------------------
(* Pure parts of list_transactions_real *)

\* mutant: every 401 refreshes the credential
ShouldRefresh_Every401(status, refreshed) == status = 401

\* `response.status_code == 401 and not token_refreshed`
ShouldRefresh(status, refreshed) == status = 401 /\ ~refreshed

\* `response.status_code == 429`
IsThrottled(status) == status = 429

\* `500 <= response.status_code < 600`
IsServerError(status) == 500 <= status /\ status < 600

\* mutant: only 5xx statuses raise
RaisesForStatus_Only5xx(status) == 500 <= status /\ status < 600

\* requests' Response.raise_for_status raises HTTPError for 4xx and 5xx
RaisesForStatus(status) == 400 <= status /\ status < 600

\* `float(retry_after)` raises ValueError
RetryAfterUnparsable(ra) == ra.kind = "date"

\* mutant: the Retry-After header is ignored
WaitTime_IgnoresHeader(ra, b) == b

\* `wait_time = float(retry_after) if retry_after else backoff`
WaitTime(ra, b) == IF ra.kind = "num" THEN ra.val ELSE b

\* mutant: the ceiling is missing
NextBackoff_NoCeiling(b) == b * 2

\* `backoff = min(backoff * 2, 60)`
NextBackoff(b) == Min(b * 2, Sec(BackoffCeiling))

\* mutant: the refresh leaves the old token in place
NewToken_Stale(old, posts) == old

\* `token = self._get_lwa_token()` after a 401: the token of the exchange
\* that follows `posts` earlier ones
NewToken(old, posts) == posts + 1

\* mutant: an empty list is handed back like any other
NoTransactions_Never(body) == FALSE

\* `not transactions`, for transactions = data.get("transactions", []): the
\* key is missing or holds an empty list (or null)
NoTransactions(body) == body = "empty"

\* mutant: the loop has no bound
LoopExhausted_Never(att, bound) == FALSE

\* mutant: one iteration too many
LoopExhausted_OffByOne(att, bound) == att > bound

\* the for loop ends after `max_retries` iterations and the raise follows it
LoopExhausted(att, bound) == att >= bound

----------------------------------------------------------------------------
(* Steps shared by the two clients *)

Finish(pcv, out, status) ==
    /\ fpc' = pcv
    /\ outcome' = out
    /\ errStatus' = status

Raise(exc) == Finish("raised", exc, 0)

\* `continue`: the next iteration, or the raise that follows the loop
Continue(bound) ==
    IF LoopExhausted(attempt + 1, bound)
    THEN Raise("RuntimeError")
    ELSE Finish("requesting", "none", 0)

\* time.sleep(w); a negative w makes time.sleep raise ValueError
Sleep(w) == sleeps' = sleeps + 1 /\ lastSleep' = w
NoSleep == sleeps' = sleeps /\ lastSleep' = -1

\* mutant: the backoff doubles only after a wait of its own length
SleepAndBackOff_OwnWaitOnly(w, bound) ==
    /\ Sleep(w)
    /\ backoff' = IF w = backoff THEN NextBackoff(backoff) ELSE backoff
    /\ nBackoffRetries' = nBackoffRetries + 1
    /\ allRetried' = allRetried
    /\ Continue(bound)

\* 429 and 5xx branches: sleep, then `backoff = min(backoff * 2, 60)`
SleepAndBackOff(w, bound) ==
    /\ Sleep(w)
    /\ backoff' = NextBackoff(backoff)
    /\ nBackoffRetries' = nBackoffRetries + 1
    /\ allRetried' = allRetried
    /\ Continue(bound)

\* the attempt ends the call without sleeping
EndAttempt ==
    /\ NoSleep
    /\ allRetried' = FALSE
    /\ UNCHANGED <<backoff, nBackoffRetries>>

\* a call starts: its locals and the observations of the call are fresh
StartCall(c, pa, mr) ==
    /\ fpc \in {"idle", "returned", "raised"}
    /\ calls < MaxCalls
    /\ calls' = calls + 1
    /\ client' = c
    /\ postedAfter' = pa
    /\ maxRetries' = mr
    /\ attempt' = 0
    /\ tokenRefreshed' = FALSE
    /\ errStatus' = 0
    /\ gets' = 0
    /\ refreshes' = 0
    /\ sleeps' = 0
    /\ lastSleep' = -1
    /\ lastStatus' = 0
    /\ lastRetryAfter' = NoRetryAfter
    /\ lastGetToken' = 0
    /\ lastBody' = "none"
    /\ n401' = 0
    /\ nBackoffRetries' = 0
    /\ allRetried' = TRUE
    /\ only5xx' = TRUE

\* the call ends before `backoff = 1.0` is reached: backoff has no value (0)
EarlyRaise(exc, posts) ==
    /\ fpc' = "raised"
    /\ outcome' = exc
    /\ backoff' = 0
    /\ token' = 0
    /\ tokenPosts' = posts

\* the loop is entered (or skipped when max_retries = 0)
EnterLoop(mr) ==
    /\ backoff' = Sec(BackoffStart)
    /\ fpc' = IF LoopExhausted(0, mr) THEN "raised" ELSE "requesting"
    /\ outcome' = IF LoopExhausted(0, mr) THEN "RuntimeError" ELSE "none"

----------------------------------------------------------------------------
(* SPAPIClient.list_transactions_real *)

\* Lines 83-95: the import check, the timestamp check, the token exchange.
\* tokOk: the POST to the token endpoint answers 2xx with an access token.
RealCall(pa, mr, tokOk) ==
    /\ StartCall("real", pa, mr)
    /\ UNCHANGED <<scenario, remaining401, remaining429>>
    /\ IF ~requestsAvailable THEN EarlyRaise("ImportError", 0)
       ELSE IF ~ValidIso8601Utc(pa) THEN EarlyRaise("ValueError:posted_after", 0)
       ELSE IF ~credsPresent THEN EarlyRaise("EnvironmentError", 0)
       ELSE IF ~tokOk THEN EarlyRaise("HTTPError:token", 1)
       ELSE /\ token' = 1
            /\ tokenPosts' = 1
            /\ EnterLoop(mr)
    /\ UNCHANGED envVars

\* mutant: the refresh waits and backs off like a throttled attempt
Refresh_BacksOff(tokOk) ==
    /\ tokenPosts' = tokenPosts + 1
    /\ refreshes' = refreshes + 1
    /\ IF tokOk
       THEN /\ token' = NewToken(token, tokenPosts)
            /\ tokenRefreshed' = TRUE
            /\ SleepAndBackOff(backoff, maxRetries)
       ELSE /\ Raise("HTTPError:token")
            /\ EndAttempt
            /\ UNCHANGED <<token, tokenRefreshed>>

\* Lines 114-118: the first 401 of the call. The token is exchanged again and
\* the loop continues with its next iteration: no sleep, backoff untouched.
Refresh(tokOk) ==
    /\ tokenPosts' = tokenPosts + 1
    /\ refreshes' = refreshes + 1
    /\ NoSleep
    /\ UNCHANGED <<backoff, nBackoffRetries>>
    /\ IF tokOk
       THEN /\ token' = NewToken(token, tokenPosts)
            /\ tokenRefreshed' = TRUE
            /\ allRetried' = allRetried
            /\ Continue(maxRetries)
       ELSE /\ Raise("HTTPError:token")
            /\ allRetried' = FALSE
            /\ UNCHANGED <<token, tokenRefreshed>>

\* Lines 97-150: one iteration of the loop, for the response r of the GET.
\* tokOk: as above, for the refresh a 401 triggers.
RealAttempt(r, tokOk) ==
    /\ client = "real"
    /\ fpc = "requesting"
    /\ attempt' = attempt + 1
    /\ gets' = gets + 1
    /\ lastGetToken' = token
    /\ lastStatus' = r.status
    /\ lastRetryAfter' = r.ra
    /\ lastBody' = IF r.status = 0 THEN "none" ELSE r.body
    /\ n401' = IF r.status = 401 THEN n401 + 1 ELSE n401
    /\ only5xx' = (only5xx /\ IsServerError(r.status))
    /\ IF r.status = 0 THEN
            \* requests.get raised
            /\ Raise("TransportError")
            /\ EndAttempt
            /\ UNCHANGED <<token, tokenPosts, tokenRefreshed, refreshes>>
       ELSE IF ShouldRefresh(r.status, tokenRefreshed) THEN
            Refresh(tokOk)
       ELSE IF IsThrottled(r.status) THEN
            /\ UNCHANGED <<token, tokenPosts, tokenRefreshed, refreshes>>
            /\ IF RetryAfterUnparsable(r.ra)
               THEN Raise("ValueError:retry_after") /\ EndAttempt
               ELSE IF WaitTime(r.ra, backoff) < 0
               THEN Raise("ValueError:sleep") /\ EndAttempt
               ELSE SleepAndBackOff(WaitTime(r.ra, backoff), maxRetries)
       ELSE IF IsServerError(r.status) THEN
            /\ UNCHANGED <<token, tokenPosts, tokenRefreshed, refreshes>>
            /\ SleepAndBackOff(backoff, maxRetries)
       ELSE IF RaisesForStatus(r.status) THEN
            /\ UNCHANGED <<token, tokenPosts, tokenRefreshed, refreshes>>
            /\ Finish("raised", "HTTPError", r.status)
            /\ EndAttempt
       ELSE
            \* response.json(), data.get("transactions", [])
            /\ UNCHANGED <<token, tokenPosts, tokenRefreshed, refreshes>>
            /\ EndAttempt
            /\ IF r.body = "invalid" THEN Raise("JSONDecodeError")
               ELSE IF NoTransactions(r.body) THEN Finish("returned", "ok_empty", 0)
               ELSE Finish("returned", "ok_data", 0)
    /\ UNCHANGED <<client, postedAfter, maxRetries, calls, scenario, remaining401,
                   remaining429>>
    /\ UNCHANGED envVars

----------------------------------------------------------------------------
(* MockSPAPIClient.list_transactions_mock *)

Scenarios == {"ok", "empty", "401", "429", "other"}

\* Lines 201-210
MockCall(pa, sc, mr) ==
    /\ StartCall("mock", pa, mr)
    /\ scenario' = sc
    /\ IF ~ValidIso8601Utc(pa)
       THEN /\ EarlyRaise("ValueError:posted_after", 0)
            /\ remaining401' = 0
            /\ remaining429' = 0
       ELSE /\ token' = 0
            /\ tokenPosts' = 0
            /\ remaining401' = IF sc = "401" THEN 1 ELSE 0
            /\ remaining429' = IF sc = "429" THEN 2 ELSE 0
            /\ EnterLoop(mr)
    /\ UNCHANGED envVars

\* Lines 212-240: one iteration of the while loop
MockAttempt ==
    /\ client = "mock"
    /\ fpc = "requesting"
    /\ attempt' = attempt + 1
    /\ UNCHANGED <<gets, lastGetToken, lastRetryAfter, only5xx, token, tokenPosts,
                   tokenRefreshed, refreshes>>
    /\ IF remaining401 > 0 THEN
            /\ remaining401' = remaining401 - 1
            /\ lastStatus' = 401
            /\ lastBody' = "none"
            /\ n401' = n401 + 1
            /\ Sleep(MockAuthPause)
            /\ allRetried' = allRetried
            /\ Continue(maxRetries)
            /\ UNCHANGED <<remaining429, backoff, nBackoffRetries>>
       ELSE IF remaining429 > 0 THEN
            /\ remaining429' = remaining429 - 1
            /\ lastStatus' = 429
            /\ lastBody' = "none"
            /\ n401' = n401
            /\ SleepAndBackOff(backoff, maxRetries)
            /\ UNCHANGED remaining401
       ELSE
            /\ lastStatus' = 200
            /\ lastBody' = IF scenario \in {"ok", "401", "429"} THEN "transactions"
                           ELSE IF scenario = "empty" THEN "empty"
                           ELSE "none"
            /\ n401' = n401
            /\ EndAttempt
            /\ UNCHANGED <<remaining401, remaining429>>
            /\ IF scenario \in {"ok", "401", "429"} THEN Finish("returned", "ok_data", 0)
               ELSE IF scenario = "empty" THEN Finish("returned", "ok_empty", 0)
               ELSE Raise("ValueError:scenario")
    /\ UNCHANGED <<client, postedAfter, maxRetries, calls, scenario>>
    /\ UNCHANGED envVars

----------------------------------------------------------------------------
(* The fetch clients on their own *)

ClientInit ==
    /\ client = "none"
    /\ fpc = "idle"
    /\ outcome = "none"
    /\ errStatus = 0
    /\ postedAfter = Stamp(FALSE, "none", "none", "none")
    /\ maxRetries = 0
    /\ attempt = 0
    /\ backoff = 0
    /\ tokenRefreshed = FALSE
    /\ token = 0
    /\ scenario = "ok"
    /\ remaining401 = 0
    /\ remaining429 = 0
    /\ calls = 0
    /\ gets = 0
    /\ tokenPosts = 0
    /\ refreshes = 0
    /\ sleeps = 0
    /\ lastSleep = -1
    /\ lastStatus = 0
    /\ lastRetryAfter = NoRetryAfter
    /\ lastGetToken = 0
    /\ lastBody = "none"
    /\ n401 = 0
    /\ nBackoffRetries = 0
    /\ allRetried = TRUE
    /\ only5xx = TRUE

FetchStep ==
    \/ \E pa \in PostedAfterInputs, mr \in RetryArgs, tokOk \in BOOLEAN :
          RealCall(pa, mr, tokOk)
    \/ \E r \in Responses, tokOk \in BOOLEAN : RealAttempt(r, tokOk)
    \/ \E pa \in PostedAfterInputs, sc \in Scenarios, mr \in RetryArgs :
          MockCall(pa, sc, mr)
    \/ MockAttempt

\* an iteration of the loop of either client
AttemptStep ==
    /\ \/ \E r \in Responses, tokOk \in BOOLEAN : RealAttempt(r, tokOk)
       \/ MockAttempt
    /\ UNCHANGED <<clockVars, valVars, normVars, storeVars, runVars, mainVars>>

----------------------------------------------------------------------------
(* Normalized records: the rows normalize_transactions hands to            *)
(* validate_transactions. A field holds a JSON value: None, a string or    *)
(* a value of another type.                                                *)

\* a value of kind "none" (None), "str", "int" (a number) or "list"
Val(kind, v) == [kind |-> kind, v |-> v]

\* a string value as the sequence of its characters
Str(chars) == Val("str", chars)
NoneVal == Val("none", << >>)
IntVal == Val("int", << >>)      \* a nonzero number
ListVal == Val("list", << >>)    \* a non-empty list

\* Python truth value: None and "" are false
Truthy(x) == x.kind # "none" /\ ~(x.kind = "str" /\ x.v = << >>)

\* hash(x) does not raise
Hashable(x) == x.kind # "list"

\* a Decimal amount in cents, the Decimal NaN, or None
Amount(cents) == [null |-> FALSE, nan |-> FALSE, cents |-> cents]
NoAmount == [null |-> TRUE, nan |-> FALSE, cents |-> 0]
NaNAmount == [null |-> FALSE, nan |-> TRUE, cents |-> 0]

\* posted_date_raw: None, "" or a number, or a string made of a date, a time
\* and a zone designator that writes the wall-clock time `wall` (seconds).
Posted(kind, date, time, tz, wall) ==
    [kind |-> kind, isStr |-> kind = "str", date |-> date, time |-> time, tz |-> tz,
     wall |-> wall]
PostedZ(wall) == Posted("str", "valid", "valid", "Z", wall)
NoPosted == Posted("none", "none", "none", "none", 0)
EmptyPosted == Posted("str", "empty", "none", "none", 0)
IntPosted == Posted("int", "none", "none", "none", 0)

TruthyPosted(p) == p.kind # "none" /\ p.date # "empty"

NormalizedRow(tid, posted, type, currency, amount, raw) ==
    [transaction_id |-> tid, posted_date_raw |-> posted, type |-> type,
     currency_code |-> currency, amount |-> amount,
     marketplace_id |-> Str(<<"M">>), order_id |-> NoneVal, reason |-> NoneVal,
     raw |-> raw]

----------------------------------------------------------------------------
(* Pure parts of validator.py *)

UpperLetters == <<"A", "B", "C", "D", "E", "F", "G", "H", "I", "J", "K", "L", "M",
                  "N", "O", "P", "Q", "R", "S", "T", "U", "V", "W", "X", "Y", "Z">>
LowerLetters == <<"a", "b", "c", "d", "e", "f", "g", "h", "i", "j", "k", "l", "m",
                  "n", "o", "p", "q", "r", "s", "t", "u", "v", "w", "x", "y", "z">>

IsUpper(c) == \E k \in DOMAIN UpperLetters : UpperLetters[k] = c

\* ISO_4217_RE = re.compile(r"^[A-Z]{3}$"), used with .match: three capital
\* letters, then the end of the string or a newline that ends the string
MatchesIso4217(chars) ==
    /\ Len(chars) \in {3, 4}
    /\ \A k \in 1..3 : IsUpper(chars[k])
    /\ Len(chars) = 4 => chars[4] = "\n"

\* str.lower()
LowerChar(c) ==
    IF IsUpper(c)
    THEN LowerLetters[CHOOSE k \in DOMAIN UpperLetters : UpperLetters[k] = c]
    ELSE c
Lower(chars) == [k \in DOMAIN chars |-> LowerChar(chars[k])]

\* UTC offset a parsed datetime carries; astimezone reads a naive datetime
\* as local time
UtcOffset(tz, local) ==
    IF tz = "+05:00" THEN 5 * 3600
    ELSE IF tz = "none" THEN local
    ELSE 0

\* _parse_iso_z raises (also for a value without .replace)
ParseIsoZRaises(p) == ~(p.isStr /\ FromIsoFormatOK(ReplaceZ(p)))

\* _parse_iso_z: the instant, in seconds, of fromisoformat(...).astimezone(utc)
ParseIsoZ(p, local) == p.wall - UtcOffset(ReplaceZ(p).tz, local)

\* timedelta.days of a non-negative difference
Days(delta) == delta \div SecondsPerDay

\* datetime.date() of a UTC instant, as a day number
DateOf(t) == t \div SecondsPerDay

\* mutant: the duplicate check is missing
IsDuplicate_Never(tid, seen) == FALSE

\* `tid in seen_ids`
IsDuplicate(tid, seen) == tid \in seen

\* mutant: a record posted exactly now is rejected too
IsFuture_OrNow(posted, now) == posted >= now

\* `posted_date > now`
IsFuture(posted, now) == posted > now

\* `(now - posted_date).days > 370`
IsOld(posted, now) == Days(now - posted) > OldDays

\* `amount > Decimal("0.00")` is reached with a NaN: the ordering comparison
\* of a Decimal NaN raises decimal.InvalidOperation
ComparisonRaises(amount, txType) ==
    /\ ~amount.null
    /\ txType = <<"r", "e", "f", "u", "n", "d">>
    /\ amount.nan

\* mutant: a refund of amount zero is reported too
IsPositiveRefund_OrZero(amount, txType) ==
    /\ ~amount.null
    /\ txType = <<"r", "e", "f", "u", "n", "d">>
    /\ amount.cents >= 0

\* `amount is not None and tx_type == "refund" and amount > Decimal("0.00")`
IsPositiveRefund(amount, txType) ==
    /\ ~amount.null
    /\ txType = <<"r", "e", "f", "u", "n", "d">>
    /\ amount.cents > 0

\* processed_row: the row with posted_date and posted_day, without posted_date_raw
ProcessedRow(row, posted) ==
    [transaction_id |-> row.transaction_id, type |-> row.type,
     currency_code |-> row.currency_code, amount |-> row.amount,
     marketplace_id |-> row.marketplace_id, order_id |-> row.order_id,
     reason |-> row.reason, raw |-> row.raw,
     posted_date |-> posted, posted_day |-> DateOf(posted)]

\* an entry of `errors` or `warnings`: the text f"item[{i}]:{tid}: ..." is kept
\* as its item number, its identifier (absent for "missing_id") and its message
Entry(i, tid, kind) == [item |-> i, tid |-> tid, kind |-> kind]

EmptyAcc ==
    [seen |-> {}, errors |-> << >>, warnings |-> << >>, valid |-> << >>, exc |-> "none"]

\* mutant: a rejected record leaves no entry in the error list
Reject_Silent(acc, i, tid, kind) == acc

\* `errors.append(...)` followed by `continue`
Reject(acc, i, tid, kind) == [acc EXCEPT !.errors = Append(@, Entry(i, tid, kind))]

\* `warnings.append(...)`
Warn(acc, i, tid, kind) == [acc EXCEPT !.warnings = Append(@, Entry(i, tid, kind))]
Throw(acc, exc) == [acc EXCEPT !.exc = exc]

\* mutant: the identifier is not remembered
Register_Forgets(seen, tid) == seen

\* `seen_ids.add(tid)`
Register(seen, tid) == seen \cup {tid}

\* Lines 118-152 of the loop body: the record has a parsed timestamp that is
\* not in the future
CheckRest(acc, i, row, posted, now) ==
    LET tid == row.transaction_id
        currency == row.currency_code
        acc1 == IF IsOld(posted, now) THEN Warn(acc, i, tid, "old") ELSE acc
    IN  IF Truthy(currency) /\ currency.kind # "str"
        THEN Throw(acc1, "TypeError")         \* ISO_4217_RE.match(<no string>)
        ELSE IF Truthy(currency) /\ ~MatchesIso4217(currency.v)
        THEN Reject(acc1, i, tid, "invalid_currency")
        ELSE IF Truthy(row.type) /\ row.type.kind # "str"
        THEN Throw(acc1, "AttributeError")    \* <no string>.lower()
        ELSE LET txType == IF Truthy(row.type) THEN Lower(row.type.v) ELSE << >>
                 acc2 == IF IsPositiveRefund(row.amount, txType)
                         THEN Warn(acc1, i, tid, "refund_sign")
                         ELSE acc1
             IN  IF ComparisonRaises(row.amount, txType)
                 THEN Throw(acc1, "InvalidOperation")
                 ELSE [acc2 EXCEPT !.valid = Append(@, ProcessedRow(row, posted))]

\* Lines 92-116 of the loop body, then the rest: one iteration for item i
ValidateRow(acc, i, row, now, local) ==
    LET tid == row.transaction_id
        raw == row.posted_date_raw
    IN  IF acc.exc # "none" THEN acc
        ELSE IF ~Truthy(tid) THEN Reject(acc, i, NoneVal, "missing_id")
        ELSE IF ~Hashable(tid) THEN Throw(acc, "TypeError")
        ELSE IF IsDuplicate(tid, acc.seen) THEN Reject(acc, i, tid, "duplicate")
        ELSE LET acc1 == [acc EXCEPT !.seen = Register(@, tid)]
             IN  IF ~TruthyPosted(raw) THEN Reject(acc1, i, tid, "missing_date")
                 ELSE IF ParseIsoZRaises(raw) THEN Reject(acc1, i, tid, "bad_date")
                 ELSE IF IsFuture(ParseIsoZ(raw, local), now)
                 THEN Reject(acc1, i, tid, "future")
                 ELSE CheckRest(acc1, i, row, ParseIsoZ(raw, local), now)

\* the loop over enumerate(rows, start=1), up to item n
RECURSIVE ValidateUpTo(_, _, _, _)
ValidateUpTo(rows, n, now, local) ==
    IF n = 0 THEN EmptyAcc
    ELSE ValidateRow(ValidateUpTo(rows, n - 1, now, local), n, rows[n], now, local)

\* validate_transactions(rows), with `now` read once before the loop
ValidateTransactions(rows, now, local) == ValidateUpTo(rows, Len(rows), now, local)

----------------------------------------------------------------------------
(* Batches handed to the validator *)

\* the clock starts at noon of day 400
T0 == 400 * SecondsPerDay + 12 * 3600

Tx1 == Str(<<"t", "x", "1">>)
Tx2 == Str(<<"t", "x", "2">>)
USD == Str(<<"U", "S", "D">>)
Order == Str(<<"O", "r", "d", "e", "r">>)
Refund == Str(<<"R", "e", "f", "u", "n", "d">>)

PostedSamples ==
    { PostedZ(T0 - 3600), PostedZ(T0), PostedZ(T0 + 1), PostedZ(T0 + 2),
      PostedZ(T0 - OldDays * SecondsPerDay),
      PostedZ(T0 - (OldDays + 1) * SecondsPerDay),
      PostedZ(T0 - (OldDays + 1) * SecondsPerDay + 1),
      Posted("str", "valid", "valid", "+05:00", T0 + 5 * 3600),
      Posted("str", "valid", "valid", "none", T0),
      Posted("str", "invalid", "valid", "Z", T0),
      NoPosted, EmptyPosted, IntPosted }

CurrencySamples ==
    { USD, NoneVal, Str(<< >>), Str(<<"u", "s">>), Str(<<"U", "S", "D", "X">>),
      Str(<<"U", "S", "D", "\n">>), IntVal }

TypeSamples == { Order, Refund, Str(<<"R", "E", "F", "U", "N", "D">>), NoneVal, IntVal }

AmountSamples == { Amount(1999), Amount(-500), Amount(0), NoAmount, NaNAmount }

\* rows that differ from an ordinary order in at most one field
SampleRows ==
    {NormalizedRow(Tx1, p, Order, USD, Amount(1999), "a") : p \in PostedSamples}
      \cup {NormalizedRow(Tx1, PostedZ(T0 - 3600), Order, c, Amount(1999), "b") :
              c \in CurrencySamples}
      \cup {NormalizedRow(Tx1, PostedZ(T0 - 3600), t, USD, Amount(1999), "c") :
              t \in TypeSamples}
      \cup {NormalizedRow(Tx1, PostedZ(T0 - 3600), Refund, USD, a, "c") :
              a \in AmountSamples}
      \cup {NormalizedRow(Tx1, PostedZ(T0 - 3600), Order, USD, NaNAmount, "c")}
      \cup {NormalizedRow(Tx1, PostedZ(T0 - (OldDays + 1) * SecondsPerDay), Order,
                           Str(<<"u", "s">>), Amount(1999), "f")}
      \cup {NormalizedRow(Tx2, p, Order, USD, Amount(1999), "d") :
              p \in {PostedZ(T0 - 3600), PostedZ(T0 + 1)}}
      \cup {NormalizedRow(t, PostedZ(T0 - 3600), Order, USD, Amount(1999), "e") :
              t \in {NoneVal, Str(<< >>), ListVal}}

Batches == UNION {[1..n -> SampleRows] : n \in 0..MaxBatch}

LocalUtcOffsets == {0, 0 - 3 * 3600}

----------------------------------------------------------------------------
(* The clock and the validator as actions *)

Tick ==
    /\ clock < T0 + MaxTicks
    /\ clock' = clock + 1
    /\ UNCHANGED localUtcOffset

\* validate_transactions(rows)
Validate(rows) ==
    /\ vpc = "idle"
    /\ vrows' = rows
    /\ vnow' = clock
    /\ LET r == ValidateTransactions(rows, clock, localUtcOffset)
       IN  /\ vexc' = r.exc
           /\ vpc' = IF r.exc = "none" THEN "returned" ELSE "raised"
           /\ valid' = IF r.exc = "none" THEN r.valid ELSE << >>
           /\ errors' = IF r.exc = "none" THEN r.errors ELSE << >>
           /\ warnings' = IF r.exc = "none" THEN r.warnings ELSE << >>

ClockInit == clock = T0

ValidatorInit ==
    /\ vpc = "idle"
    /\ vexc = "none"
    /\ vrows = << >>
    /\ vnow = 0
    /\ valid = << >>
    /\ errors = << >>
    /\ warnings = << >>

----------------------------------------------------------------------------
(* validator.py: normalize_transactions *)

\* The value under amount.amount of a transaction of the payload:
\*   "none"   the key is missing or holds null
\*   "empty"  ""
\*   "text"   a string that is no number ("abc", "5,00")
\*   "dec"    a decimal numeral or a JSON number, of `mills` thousandths
\*   "huge"   a numeral too large for 28 digits with two decimals ("1E+30")
\*   "nan"    "NaN"
\*   "inf"    "Infinity"
\*   "list"   a JSON array
\*   "dict"   a JSON object
AmountStr(kind, mills) == [kind |-> kind, mills |-> mills]
NoAmountStr == AmountStr("none", 0)

\* the value under `amount`: a JSON object with currencyCode and amount, or
\* a value that is no object (the key is missing, null, a number)
AmountObj(isDict, currencyCode, amountStr) ==
    [isDict |-> isDict, currencyCode |-> currencyCode, amount |-> amountStr]

\* the value under `details`: its orderId and its reason, None when the key
\* (or `details` itself) is missing
Details(orderId, reason) == [orderId |-> orderId, reason |-> reason]
NoDetails == Details(NoneVal, NoneVal)

\* a transaction of the payload (`details` is absent)
JsonTransaction(tid, posted, type, amountObj, raw) ==
    [transactionId |-> tid, postedDate |-> posted, type |-> type, amount |-> amountObj,
     marketplaceId |-> Str(<<"M">>), details |-> NoDetails, raw |-> raw]

Abs(n) == IF n < 0 THEN 0 - n ELSE n

\* Decimal.quantize(Decimal("0.01")) under the default context: the nearest
\* number of cents, a tie going to the even one (ROUND_HALF_EVEN)
Quantize(mills) ==
    LET q == Abs(mills) \div 10
        r == Abs(mills) % 10
        up == r > 5 \/ (r = 5 /\ q % 2 = 1)
        c == IF up THEN q + 1 ELSE q
    IN  IF mills < 0 THEN 0 - c ELSE c

\* decimal.Decimal(amount_str) raises an exception that line 53 does not
\* catch: TypeError for a JSON object
DecimalRaises(a) == a.kind = "dict"

\* Lines 48-54: amount_dec
AmountDec(a) ==
    IF a.kind \in {"none", "empty"} THEN NoAmount                \* line 49
    ELSE IF a.kind \in {"text", "list"} THEN NoAmount            \* Decimal() raises, caught
    ELSE IF a.kind \in {"inf", "huge"} THEN NoAmount             \* quantize raises, caught
    ELSE IF a.kind = "nan" THEN NaNAmount                        \* quantize returns NaN
    ELSE Amount(Quantize(a.mills))

\* Lines 39-45: amount_str
AmountStrOf(tx) == IF tx.amount.isDict THEN tx.amount.amount ELSE NoAmountStr

\* Lines 38-69: the row appended for one transaction
NormalizeRow(tx) ==
    [NormalizedRow(tx.transactionId, tx.postedDate, tx.type,
                   IF tx.amount.isDict THEN tx.amount.currencyCode ELSE NoneVal,
                   AmountDec(AmountStrOf(tx)), tx.raw)
        EXCEPT !.order_id = tx.details.orderId, !.reason = tx.details.reason]

\* normalize_transactions(api_payload): the rows, or the exception of the
\* first transaction that raises
NormalizeTransactions(txs) ==
    IF \E k \in DOMAIN txs : DecimalRaises(AmountStrOf(txs[k]))
    THEN [exc |-> "TypeError", rows |-> << >>]
    ELSE [exc |-> "none", rows |-> [k \in DOMAIN txs |-> NormalizeRow(txs[k])]]

AmountStrSamples ==
    { NoAmountStr, AmountStr("empty", 0), AmountStr("text", 0), AmountStr("huge", 0),
      AmountStr("nan", 0), AmountStr("inf", 0), AmountStr("list", 0), AmountStr("dict", 0) }
        \cup {AmountStr("dec", m) : m \in {19990, 19985, 19995, 19999, 4, 0, -5, -5000}}

AmountObjSamples ==
    {AmountObj(TRUE, USD, a) : a \in AmountStrSamples}
        \cup {AmountObj(FALSE, NoneVal, NoAmountStr)}

PayloadSamples ==
    {JsonTransaction(Tx1, PostedZ(T0 - 3600), Order, o, "a") : o \in AmountObjSamples}

Payloads == UNION {[1..n -> PayloadSamples] : n \in 0..MaxPayload}

\* normalize_transactions(api_payload)
Normalize(txs) ==
    /\ npc = "idle"
    /\ npayload' = txs
    /\ LET r == NormalizeTransactions(txs)
       IN  /\ npc' = IF r.exc = "none" THEN "returned" ELSE "raised"
           /\ nexc' = r.exc
           /\ nrows' = r.rows

NormalizerInit ==
    /\ npc = "idle"
    /\ npayload = << >>
    /\ nexc = "none"
    /\ nrows = << >>

----------------------------------------------------------------------------
(* database.py: the table spapi_transactions and save_transactions *)

\* the value a jsonb column holds for the JSON text `text`:
\* psycopg2.extras.Json(json.loads(tx["raw"]))
Jsonb(text) == [jsonb |-> text]

\* the row INSERT builds from the tuple of `values` made of tx; created_at and
\* updated_at take their DEFAULT now()
InsertedRow(tx, now) ==
    [transaction_id |-> tx.transaction_id, posted_date |-> tx.posted_date,
     posted_day |-> tx.posted_day, type |-> tx.type,
     currency_code |-> tx.currency_code, amount |-> tx.amount,
     marketplace_id |-> tx.marketplace_id, order_id |-> tx.order_id,
     reason |-> tx.reason, raw |-> Jsonb(tx.raw),
     created_at |-> now, updated_at |-> now]

\* ON CONFLICT (transaction_id) DO UPDATE SET ... = EXCLUDED. ..., updated_at = now()
UpdatedRow(old, tx, now) ==
    [old EXCEPT !.posted_date = tx.posted_date, !.posted_day = tx.posted_day,
                !.type = tx.type, !.currency_code = tx.currency_code,
                !.amount = tx.amount, !.marketplace_id = tx.marketplace_id,
                !.order_id = tx.order_id, !.reason = tx.reason,
                !.raw = Jsonb(tx.raw), !.updated_at = now]

\* mutant: ON CONFLICT (transaction_id) DO NOTHING
UpsertRow_DoNothing(rows, tx, now) ==
    IF \E r \in rows : r.transaction_id = tx.transaction_id
    THEN rows
    ELSE rows \cup {InsertedRow(tx, now)}

\* INSERT ... ON CONFLICT (transaction_id) DO UPDATE for one tuple of VALUES
UpsertRow(rows, tx, now) ==
    IF \E r \in rows : r.transaction_id = tx.transaction_id
    THEN {IF r.transaction_id = tx.transaction_id THEN UpdatedRow(r, tx, now) ELSE r :
            r \in rows}
    ELSE rows \cup {InsertedRow(tx, now)}

\* mutant: rows without identifier are kept
ValuesOf_KeepAll(batch) == batch

\* `values`: the rows of the batch that have an identifier, in order
RECURSIVE ValuesOf(_)
ValuesOf(batch) ==
    IF batch = << >> THEN << >>
    ELSE IF Truthy(Head(batch).transaction_id)
    THEN <<Head(batch)>> \o ValuesOf(Tail(batch))
    ELSE ValuesOf(Tail(batch))

\* one statement proposes the same key twice: PostgreSQL raises "ON CONFLICT
\* DO UPDATE command cannot affect row a second time"
AffectsRowTwice(page) ==
    \E a, b \in DOMAIN page : a # b /\ page[a].transaction_id = page[b].transaction_id

\* one INSERT statement over the tuples of a page
RECURSIVE ExecuteStatement(_, _, _)
ExecuteStatement(rows, page, now) ==
    IF page = << >> THEN rows
    ELSE ExecuteStatement(UpsertRow(rows, Head(page), now), Tail(page), now)

\* execute_values: one statement per page of page_size tuples; the result is
\* the table after the statements, or the failure of one of them
RECURSIVE ExecuteValues(_, _, _)
ExecuteValues(rows, values, now) ==
    IF values = << >> THEN [ok |-> TRUE, rows |-> rows]
    ELSE LET n == Min(Len(values), PageSize)
             page == SubSeq(values, 1, n)
             rest == SubSeq(values, n + 1, Len(values))
         IN  IF AffectsRowTwice(page)
             THEN [ok |-> FALSE, rows |-> rows]
             ELSE ExecuteValues(ExecuteStatement(rows, page, now), rest, now)

\* the last row of `values` that carries the identifier
LastWith(values, tid) ==
    values[CHOOSE k \in DOMAIN values :
              /\ values[k].transaction_id = tid
              /\ \A m \in (k + 1)..Len(values) : values[m].transaction_id # tid]

IdsOf(values) == {values[k].transaction_id : k \in DOMAIN values}

\* save_transactions(transactions). fault: where the database fails, if it
\* does ("connect": get_connection raises; "execute": the statement fails;
\* "commit": the commit fails); at: now() of the transaction.
SaveTransactions(batch, fault, at) ==
    /\ saves < MaxSaves
    /\ saves' = saves + 1
    /\ at >= dbClock
    /\ IF batch = << >> THEN
            /\ saveResult' = [raised |-> FALSE, count |-> 0]
            /\ UNCHANGED <<table, dbClock, lastUpsert>>
       ELSE LET values == ValuesOf(batch)
                done == ExecuteValues(table, values, at)
            IN  IF fault # "none" \/ ~done.ok THEN
                    \* the connection context manager rolls the transaction back
                    /\ saveResult' = [raised |-> TRUE, count |-> 0]
                    /\ dbClock' = at
                    /\ UNCHANGED <<table, lastUpsert>>
                ELSE
                    /\ saveResult' = [raised |-> FALSE, count |-> Len(values)]
                    /\ dbClock' = at
                    /\ table' = done.rows
                    /\ lastUpsert' =
                          [tid \in DOMAIN lastUpsert \cup IdsOf(values) |->
                              IF tid \in IdsOf(values)
                              THEN LastWith(values, tid)
                              ELSE lastUpsert[tid]]

StoreInit ==
    /\ table = {}
    /\ dbClock = 0
    /\ saves = 0
    /\ saveResult = [raised |-> FALSE, count |-> 0]
    /\ saveArg = << >>
    /\ lastUpsert = << >>

----------------------------------------------------------------------------
(* Batches handed to the store: validated records *)

Valid1 == ProcessedRow(NormalizedRow(Tx1, PostedZ(T0), Order, USD, Amount(1999), "a"), T0)

\* a second delivery of tx1 with every mutable field changed
Valid1b ==
    [ProcessedRow(NormalizedRow(Tx1, PostedZ(T0), Refund, Str(<<"E", "U", "R">>),
                                Amount(-500), "b"), T0 - SecondsPerDay)
        EXCEPT !.marketplace_id = Str(<<"N">>), !.order_id = Str(<<"o">>),
               !.reason = Str(<<"r">>)]

\* a third delivery of tx1 that changes the reason alone
Valid1c == [Valid1 EXCEPT !.reason = Str(<<"r">>)]

Valid2 == [Valid1 EXCEPT !.transaction_id = Tx2]

\* records without identifier
Valid0 == [Valid1 EXCEPT !.transaction_id = NoneVal]

StoreRows == {Valid1, Valid1b, Valid1c, Valid2, Valid0}

SaveBatches == UNION {[1..n -> StoreRows] : n \in 0..MaxSaveBatch}

Faults == {"none", "connect", "execute", "commit"}

----------------------------------------------------------------------------
(* Pipeline runs that save at the same time: the save stage of main and    *)
(* save_transactions, one tuple of the INSERT at a time. PostgreSQL runs   *)
(* each transaction at READ COMMITTED: a write locks its row until the     *)
(* transaction ends, and now() is the time the transaction started.        *)

Runs == {1, 2}

KeysOf(rows) == {r.transaction_id : r \in rows}

\* what a transaction reads: its own writes in place of the committed rows
\* of the same keys; also the table after the writes are committed
Overlay(rows, written) ==
    {r \in rows : r.transaction_id \notin KeysOf(written)} \cup written

\* mutant: the writes made before the failure stay in the table
RolledBack_Partial(rows, written) == Overlay(rows, written)

\* the table after `with get_connection() as conn` is left by an exception:
\* the transaction is rolled back
RolledBack(rows, written) == rows

\* mutant: writers of one key do not wait for each other
LockedByOther_Never(r, tid) == FALSE

\* the row of the key is locked by the open transaction of another run: the
\* statement waits until that transaction ends
LockedByOther(r, tid) ==
    \E o \in Runs \ {r} : rpc[o] = "writing" /\ tid \in KeysOf(work[o])

HasNextTuple(r) == rpc[r] = "writing" /\ rnext[r] <= Len(rvalues[r])

NextTuple(r) == rvalues[r][rnext[r]]

Waiting(r) == HasNextTuple(r) /\ LockedByOther(r, NextTuple(r).transaction_id)

\* number of the first tuple of the page (statement) that holds tuple k
PageStart(k) == ((k - 1) \div PageSize) * PageSize + 1

\* the statement proposed the key of tuple k before: "ON CONFLICT DO UPDATE
\* command cannot affect row a second time"
SecondTimeInStatement(values, k) ==
    \E j \in PageStart(k)..(k - 1) : values[j].transaction_id = values[k].transaction_id

\* main lines 159-164 and save_transactions lines 73-118: the run has valid
\* rows, ensures the table, builds `values` and connects (ok), or one of these
\* raises
RunSave(r, batch, ok) ==
    /\ rpc[r] = "idle"
    /\ batch # << >>
    /\ rvalues' = [rvalues EXCEPT ![r] = ValuesOf(batch)]
    /\ rpc' = [rpc EXCEPT ![r] = IF ok THEN "connected" ELSE "failed"]
    /\ UNCHANGED <<rnext, rnow, work, table, dbClock, lastUpsert>>

\* the first cur.execute of the connection: psycopg2 sends BEGIN ahead of
\* the statement
Begin(r) ==
    /\ rpc[r] = "connected"
    /\ rpc' = [rpc EXCEPT ![r] = "writing"]
    /\ rnow' = [rnow EXCEPT ![r] = dbClock]
    /\ rnext' = [rnext EXCEPT ![r] = 1]
    /\ UNCHANGED <<rvalues, work, table, dbClock, lastUpsert>>

\* save_transactions raises inside the with block: rollback; main logs the
\* error and re-raises it (lines 180-183, 201-203), the process exits with 1
Rollback(r) ==
    /\ rpc' = [rpc EXCEPT ![r] = "failed"]
    /\ table' = RolledBack(table, work[r])
    /\ work' = [work EXCEPT ![r] = {}]
    /\ UNCHANGED lastUpsert

\* the INSERT proposes its next tuple (ok), or the statement fails there
UpsertTuple(r, ok) ==
    /\ HasNextTuple(r)
    /\ ~LockedByOther(r, NextTuple(r).transaction_id)
    /\ IF ~ok \/ SecondTimeInStatement(rvalues[r], rnext[r])
       THEN Rollback(r) /\ UNCHANGED rnext
       ELSE LET tx == NextTuple(r)
                after == UpsertRow(Overlay(table, work[r]), tx, rnow[r])
                new == CHOOSE w \in after : w.transaction_id = tx.transaction_id
            IN  /\ work' = [work EXCEPT ![r] = Overlay(@, {new})]
                /\ rnext' = [rnext EXCEPT ![r] = @ + 1]
                /\ UNCHANGED <<rpc, table, lastUpsert>>
    /\ UNCHANGED <<rvalues, rnow, dbClock>>

\* two transactions wait for a row of each other: PostgreSQL aborts one
DeadlockAbort(r) ==
    /\ Waiting(r)
    /\ \E o \in Runs \ {r} :
          /\ Waiting(o)
          /\ NextTuple(r).transaction_id \in KeysOf(work[o])
          /\ NextTuple(o).transaction_id \in KeysOf(work[r])
    /\ Rollback(r)
    /\ UNCHANGED <<rvalues, rnext, rnow, dbClock>>

\* conn.commit() (ok), or the commit fails
Commit(r, ok) ==
    /\ rpc[r] = "writing"
    /\ rnext[r] > Len(rvalues[r])
    /\ IF ok
       THEN /\ table' = Overlay(table, work[r])
            /\ lastUpsert' =
                  [tid \in DOMAIN lastUpsert \cup IdsOf(rvalues[r]) |->
                      IF tid \in IdsOf(rvalues[r])
                      THEN LastWith(rvalues[r], tid)
                      ELSE lastUpsert[tid]]
            /\ rpc' = [rpc EXCEPT ![r] = "saved"]
            /\ work' = [work EXCEPT ![r] = {}]
       ELSE Rollback(r)
    /\ UNCHANGED <<rvalues, rnext, rnow, dbClock>>

\* main lines 165-199: the saved rows are read back and the report is made
\* (ok), or one of these raises
RunReport(r, ok) ==
    /\ rpc[r] = "saved"
    /\ rpc' = [rpc EXCEPT ![r] = IF ok THEN "completed" ELSE "failed_late"]
    /\ UNCHANGED <<rvalues, rnext, rnow, work, table, dbClock, lastUpsert>>

\* time passes on the database server
DbTick ==
    /\ dbClock < MaxDbClock
    /\ dbClock' = dbClock + 1
    /\ UNCHANGED <<rpc, rvalues, rnext, rnow, work, table, lastUpsert>>

RunsInit ==
    /\ rpc = [r \in Runs |-> "idle"]
    /\ rvalues = [r \in Runs |-> << >>]
    /\ rnext = [r \in Runs |-> 1]
    /\ rnow = [r \in Runs |-> 0]
    /\ work = [r \in Runs |-> {}]

\* valid rows of the runs
RunRows == {Valid1, Valid1b, Valid2}

RunBatches == UNION {[1..n -> RunRows] : n \in 1..MaxSaveBatch}

----------------------------------------------------------------------------
(* main.py: one run of the pipeline. The client fetches, validate_and_report *)
(* normalizes and validates, save_transactions writes the valid records and *)
(* print_analytics_report ends the run.                                     *)

MockTx1 == Str(<<"t", "x", "-", "m", "o", "c", "k", "-", "0", "0", "1">>)
MockTx2 == Str(<<"t", "x", "-", "m", "o", "c", "k", "-", "0", "0", "2">>)

\* MOCK_RESPONSES["ok"]["transactions"]: an Order of 19.99 USD posted at 12:15
\* and a Refund of -5.00 USD posted at 13:40 of 2025-08-30, which is day 400
\* of the model's clock; both carry the same orderId, the second a reason
MockOk ==
    LET orderId == Str(<<"9", "0", "3">>)
        reason == Str(<<"C", "u", "s", "t", "o", "m", "e", "r", "R", "e", "t", "u", "r", "n">>)
    IN  << [JsonTransaction(MockTx1, PostedZ(T0 + 15 * 60), Order,
                            AmountObj(TRUE, USD, AmountStr("dec", 19990)), "m1")
              EXCEPT !.details = Details(orderId, NoneVal)],
           [JsonTransaction(MockTx2, PostedZ(T0 + 100 * 60), Refund,
                            AmountObj(TRUE, USD, AmountStr("dec", -5000)), "m2")
              EXCEPT !.details = Details(orderId, reason)] >>

\* times at which a run starts: 13:00 of the day the sample is posted, noon of
\* the next day, and noon of 2026-11-03, 430 days after the sample
RunTimes == {T0 + 3600, T0 + SecondsPerDay, T0 + 430 * SecondsPerDay}

\* the arguments of a run: --posted-after, a valid timestamp (also the
\* default) or another string, and --scenario, one of its four choices
MainArgs ==
    [postedAfter : {Stamp(TRUE, "valid", "valid", "Z"), Stamp(TRUE, "invalid", "none", "none")},
     scenario : {"ok", "empty", "401", "429"}]

\* payloads the real API may deliver
RealPayloads ==
    LET Delivered(tid, currency, amountStr, raw) ==
            JsonTransaction(tid, PostedZ(T0 - 3600), Order,
                            AmountObj(TRUE, currency, amountStr), raw)
        ok1 == Delivered(Tx1, USD, AmountStr("dec", 19990), "a")
        ok2 == Delivered(Tx2, USD, AmountStr("dec", 19990), "d")
        again == Delivered(Tx1, USD, AmountStr("dec", -5000), "b")
        badCurrency == Delivered(Tx1, Str(<<"u", "s">>), AmountStr("dec", 19990), "f")
        noId == Delivered(NoneVal, USD, AmountStr("dec", 19990), "e")
        dictAmount == Delivered(Tx1, USD, AmountStr("dict", 0), "g")
        intCurrency == Delivered(Tx1, IntVal, AmountStr("dec", 19990), "h")
    IN  { <<ok1>>, <<ok1, ok2>>, <<ok1, again>>, <<badCurrency>>, <<badCurrency, ok2>>,
          <<noId>>, <<dictAmount>>, <<intCurrency>> }

\* the transactions of the payload that the finished fetch handed back
FetchedPayloads ==
    IF outcome = "ok_empty" THEN {<< >>}
    ELSE IF client = "mock" THEN {MockOk}
    ELSE RealPayloads

\* mutant: save_transactions is called whatever the valid list holds
ShouldSave_Always(validTransactions) == TRUE

\* `if valid_transactions:`
ShouldSave(validTransactions) == validTransactions # << >>

\* get_saved_transactions(transaction_ids): the selected columns of the rows
\* with these identifiers (the order of the result is left out)
SavedTransactions(rows, ids) ==
    { [transaction_id |-> r.transaction_id, type |-> r.type, amount |-> r.amount,
       currency_code |-> r.currency_code, posted_date |-> r.posted_date,
       posted_day |-> r.posted_day, order_id |-> r.order_id, reason |-> r.reason] :
         r \in {x \in rows : x.transaction_id \in ids} }

MainInit ==
    /\ mpc = "start"
    /\ apiData = << >>
    /\ savedData = {}

\* Lines 132-136: --mock; max_retries keeps its default
MainFetchMock(pa, sc) ==
    /\ mpc = "start"
    /\ mpc' = "fetching"
    /\ MockCall(pa, sc, DEFAULT_MAX_RETRIES)
    /\ UNCHANGED <<apiData, savedData, clockVars, valVars, normVars, storeVars, runVars>>

\* Lines 137-144: --real; max_retries keeps its default
MainFetchReal(pa, tokOk) ==
    /\ mpc = "start"
    /\ mpc' = "fetching"
    /\ RealCall(pa, DEFAULT_MAX_RETRIES, tokOk)
    /\ UNCHANGED <<apiData, savedData, clockVars, valVars, normVars, storeVars, runVars>>

\* the fetch goes through an iteration of its loop
MainAttempt == mpc = "fetching" /\ AttemptStep

\* the fetch raised: lines 201-203 log the exception and raise it again
MainFetchRaised ==
    /\ mpc = "fetching"
    /\ fpc = "raised"
    /\ mpc' = "failed"
    /\ UNCHANGED <<apiData, savedData, envVars, fetchVars, clockVars, valVars, normVars,
                   storeVars, runVars>>

\* Line 147: validate_and_report(api_data), which normalizes and validates;
\* an exception of either leaves main by lines 201-203
MainValidate(payload) ==
    /\ mpc = "fetching"
    /\ fpc = "returned"
    /\ payload \in FetchedPayloads
    /\ apiData' = payload
    /\ Normalize(payload)
    /\ LET n == NormalizeTransactions(payload)
           v == ValidateTransactions(n.rows, clock, localUtcOffset)
       IN  IF n.exc # "none"
           THEN mpc' = "failed" /\ UNCHANGED valVars
           ELSE /\ Validate(n.rows)
                /\ mpc' = IF v.exc = "none" THEN "validated" ELSE "failed"
    /\ UNCHANGED <<savedData, envVars, fetchVars, clockVars, storeVars, runVars>>

\* Lines 159-183: save_transactions(valid_transactions), then
\* get_saved_transactions of their identifiers; an exception of either is
\* raised again. readOk: the SELECT of get_saved_transactions succeeds.
MainSave(fault, at, readOk) ==
    /\ mpc = "validated"
    /\ ShouldSave(valid)
    /\ SaveTransactions(valid, fault, at)
    /\ saveArg' = valid
    /\ IF saveResult'.raised \/ ~readOk
       THEN mpc' = "failed" /\ savedData' = {}
       ELSE mpc' = "saved" /\ savedData' = SavedTransactions(table', IdsOf(valid))
    /\ UNCHANGED <<apiData, envVars, fetchVars, clockVars, valVars, normVars, runVars>>

\* Lines 184-186: nothing valid, nothing is saved
MainSkipSave ==
    /\ mpc = "validated"
    /\ ~ShouldSave(valid)
    /\ mpc' = "skipped"
    /\ UNCHANGED <<apiData, savedData, envVars, fetchVars, clockVars, valVars, normVars,
                   storeVars, runVars>>

\* Lines 190-199: print_analytics_report catches every exception of its
\* queries, so the run ends whether or not the database answers
MainReport ==
    /\ mpc \in {"saved", "skipped"}
    /\ mpc' = "completed"
    /\ UNCHANGED <<apiData, savedData, envVars, fetchVars, clockVars, valVars, normVars,
                   storeVars, runVars>>

----------------------------------------------------------------------------
(* Specifications *)

\* one run of main on any host, started at one of the run times, on an
\* empty table
Init ==
    /\ requestsAvailable \in BOOLEAN
    /\ credsPresent \in BOOLEAN
    /\ localUtcOffset = 0
    /\ clock \in RunTimes
    /\ ClientInit /\ ValidatorInit /\ NormalizerInit /\ StoreInit /\ RunsInit
    /\ MainInit

Next ==
    \/ \E a \in MainArgs : MainFetchMock(a.postedAfter, a.scenario)
    \/ \E a \in MainArgs, tokOk \in BOOLEAN : MainFetchReal(a.postedAfter, tokOk)
    \/ MainAttempt
    \/ MainFetchRaised
    \/ \E payload \in RealPayloads \cup {MockOk, << >>} : MainValidate(payload)
    \/ \E fault \in Faults, at \in 0..MaxDbClock, readOk \in BOOLEAN :
          MainSave(fault, at, readOk)
    \/ MainSkipSave
    \/ MainReport

Spec == Init /\ [][Next]_vars

\* a host with the HTTP library and the credentials in place, on UTC
HostReady ==
    /\ requestsAvailable = TRUE
    /\ credsPresent = TRUE
    /\ localUtcOffset = 0

\* the store on its own: any sequence of save_transactions calls
StoreSpecInit ==
    /\ HostReady /\ ClientInit /\ ClockInit /\ ValidatorInit /\ NormalizerInit
    /\ StoreInit /\ RunsInit /\ MainInit

StoreNext ==
    /\ \E batch \in SaveBatches, fault \in Faults, at \in 0..MaxDbClock :
          SaveTransactions(batch, fault, at)
    /\ UNCHANGED <<envVars, fetchVars, clockVars, valVars, normVars, runVars, saveArg, mainVars>>

StoreSpec == StoreSpecInit /\ [][StoreNext]_vars

\* a few calls of save_transactions, each observed with its argument
SaveCall(batch, fault, at) == SaveTransactions(batch, fault, at) /\ saveArg' = batch

SaveCallRows == {Valid1, Valid1b, Valid0}

SaveCallBatches == UNION {[1..n -> SaveCallRows] : n \in 0..MaxSaveBatch}

SaveCallNext ==
    /\ saves < MaxObservedSaves
    /\ \E batch \in SaveCallBatches, fault \in Faults, at \in 0..MaxDbClock :
          SaveCall(batch, fault, at)
    /\ UNCHANGED <<envVars, fetchVars, clockVars, valVars, normVars, runVars, mainVars>>

SaveCallSpec == StoreSpecInit /\ [][SaveCallNext]_vars

\* the fetch clients on their own, on any host
FetchInit ==
    /\ requestsAvailable \in BOOLEAN
    /\ credsPresent \in BOOLEAN
    /\ localUtcOffset = 0
    /\ ClientInit /\ ClockInit /\ ValidatorInit /\ NormalizerInit /\ StoreInit
    /\ RunsInit /\ MainInit

FetchNext ==
    FetchStep /\ UNCHANGED <<clockVars, valVars, normVars, storeVars, runVars, mainVars>>

FetchSpec == FetchInit /\ [][FetchNext]_vars

\* the fetch clients when every requests.get, token exchange and time.sleep
\* returns: a call in its loop goes on to the end of its iteration
FetchLiveSpec == FetchSpec /\ WF_vars(AttemptStep)

\* the validator on its own, called once at some time of the clock
ValidateNext ==
    \/ /\ Tick /\ vpc = "idle"
       /\ UNCHANGED <<envVars, fetchVars, valVars, normVars, storeVars, runVars, mainVars>>
    \/ /\ vpc = "idle"
       /\ \E rows \in Batches : Validate(rows)
       /\ UNCHANGED <<envVars, fetchVars, clockVars, normVars, storeVars, runVars, mainVars>>

ValidateInit ==
    /\ requestsAvailable = TRUE
    /\ credsPresent = TRUE
    /\ localUtcOffset \in LocalUtcOffsets
    /\ ClientInit /\ ClockInit /\ ValidatorInit /\ NormalizerInit /\ StoreInit
    /\ RunsInit /\ MainInit

ValidateSpec == ValidateInit /\ [][ValidateNext]_vars

\* normalize_transactions on its own, called once
NormalizeInit == StoreSpecInit

NormalizeNext ==
    /\ npc = "idle"
    /\ \E txs \in Payloads : Normalize(txs)
    /\ UNCHANGED <<envVars, fetchVars, clockVars, valVars, storeVars, runVars, mainVars>>

NormalizeSpec == NormalizeInit /\ [][NormalizeNext]_vars

\* two pipeline runs that reach their save stage at any times
RunsSpecInit == StoreSpecInit

RunsStep ==
    \/ \E r \in Runs :
          /\ rpc[r] = "idle"
          /\ \E batch \in RunBatches, ok \in BOOLEAN : RunSave(r, batch, ok)
    \/ \E r \in Runs : Begin(r)
    \/ \E r \in Runs, ok \in BOOLEAN : UpsertTuple(r, ok)
    \/ \E r \in Runs : DeadlockAbort(r)
    \/ \E r \in Runs, ok \in BOOLEAN : Commit(r, ok)
    \/ \E r \in Runs, ok \in BOOLEAN : RunReport(r, ok)
    \/ DbTick

RunsNext ==
    /\ RunsStep
    /\ UNCHANGED <<envVars, fetchVars, clockVars, valVars, normVars, saves, saveResult,
                   saveArg, mainVars>>

RunsSpec == RunsSpecInit /\ [][RunsNext]_vars

----------------------------------------------------------------------------
(* Properties of the store *)

\* the mutable columns of a stored row
MutableColumns(r) ==
    [posted_date |-> r.posted_date, posted_day |-> r.posted_day, type |-> r.type,
     currency_code |-> r.currency_code, amount |-> r.amount,
     marketplace_id |-> r.marketplace_id, order_id |-> r.order_id,
     reason |-> r.reason, raw |-> r.raw]

\* the same columns as a record handed to save_transactions carries them
ColumnsOf(tx) ==
    [posted_date |-> tx.posted_date, posted_day |-> tx.posted_day, type |-> tx.type,
     currency_code |-> tx.currency_code, amount |-> tx.amount,
     marketplace_id |-> tx.marketplace_id, order_id |-> tx.order_id,
     reason |-> tx.reason, raw |-> Jsonb(tx.raw)]

\* C1: after any sequence of upsert calls the store holds exactly one row
\* per transaction_id ever written, and the mutable fields of that row are
\* those of the most recent (committed) upsert that contained the id.
C1_OneRowPerIdLatestValues ==
    /\ \A r1, r2 \in table : r1.transaction_id = r2.transaction_id => r1 = r2
    /\ {r.transaction_id : r \in table} = DOMAIN lastUpsert
    /\ \A r \in table : MutableColumns(r) = ColumnsOf(lastUpsert[r.transaction_id])

\* tx1 was written, then overwritten at a later time by the delivery that
\* changes every field, next to a row of tx2
C1_Witness ==
    /\ Cardinality(table) = 2
    /\ \E r \in table :
          /\ r.transaction_id = Tx1
          /\ MutableColumns(r) = ColumnsOf(Valid1b)
          /\ r.created_at < r.updated_at
    /\ saves >= 2

\* the step makes save_transactions of run r raise
SaveFails(r) == rpc[r] \in {"idle", "connected", "writing"} /\ rpc'[r] = "failed"

\* the step commits the transaction of run r
SaveLands(r) == rpc[r] = "writing" /\ rpc'[r] = "saved"

\* C12: if an upsert call fails at any point, the failure is surfaced (the
\* run re-raises it and never reports success) and none of the call's rows
\* are persisted: the failing call leaves the rows of the store as they
\* were, and the store changes only by a call that lands its whole batch.
C12_FailedUpsertPersistsNothing ==
    /\ [][\A r \in Runs :
            SaveFails(r) => (table' = table /\ lastUpsert' = lastUpsert /\ work'[r] = {})]_vars
    /\ [][\A r \in Runs : rpc[r] = "failed" => rpc'[r] = "failed"]_vars
    /\ [][table' # table =>
            \E r \in Runs :
               /\ SaveLands(r)
               /\ \A k \in DOMAIN rvalues[r] :
                     \E row \in table' :
                        /\ row.transaction_id = rvalues[r][k].transaction_id
                        /\ MutableColumns(row) =
                              ColumnsOf(LastWith(rvalues[r], row.transaction_id))]_vars

\* a run failed after its statement had written the first of its two
\* tuples, next to a run that saved: the key of that tuple is not in the store
C12_Witness ==
    \E r \in Runs :
        /\ rpc[r] = "failed"
        /\ Len(rvalues[r]) = 2
        /\ rnext[r] = 2
        /\ rvalues[r][1].transaction_id = Tx2
        /\ Tx2 \notin KeysOf(table)
        /\ table # {}

\* C13: for every transaction_id, created_at is set at the first insert and
\* never changed by a later upsert, and updated_at is set to the write time
\* on every conflicting upsert; so in every reachable store state
\* created_at <= updated_at, and updated_at never decreases.
C13_Timestamps ==
    /\ [](\A r \in table : r.created_at <= r.updated_at)
    /\ [][\A r \in table : \A q \in table' :
            q.transaction_id = r.transaction_id
               => (q.created_at = r.created_at /\ q.updated_at >= r.updated_at)]_vars

\* C14: for every interleaving of two pipeline runs that upsert the same
\* transaction_id, the store ends with exactly one row for that id, whose
\* mutable fields are all those of the write that landed last; no
\* interleaving produces a duplicate row, a row mixing fields of both
\* writes, or a changed created_at.
C14_ConcurrentUpsertsConverge ==
    /\ [](\A tid \in KeysOf(table) :
             /\ Cardinality({r \in table : r.transaction_id = tid}) = 1
             /\ tid \in DOMAIN lastUpsert
             /\ \A r \in table :
                   r.transaction_id = tid => MutableColumns(r) = ColumnsOf(lastUpsert[tid]))
    /\ [](\A r \in Runs :
             rpc[r] \in {"saved", "completed", "failed_late"}
                => IdsOf(rvalues[r]) \subseteq KeysOf(table))
    /\ [][\A r \in table : \A q \in table' :
            q.transaction_id = r.transaction_id => q.created_at = r.created_at]_vars

\* run 2 opened its transaction first, run 1 inserted tx1 and committed, and
\* run 2 landed last: the row has the fields of run 2 and the created_at of
\* run 1
C14_Witness ==
    /\ rpc[1] \in {"saved", "completed"}
    /\ rpc[2] \in {"saved", "completed"}
    /\ rvalues[1] = <<Valid1>>
    /\ rvalues[2] = <<Valid1b>>
    /\ rnow[2] < rnow[1]
    /\ \E row \in table :
          /\ row.transaction_id = Tx1
          /\ row.created_at = rnow[1]
          /\ MutableColumns(row) = ColumnsOf(Valid1b)
    /\ Cardinality(table) = 1

\* items of the last batch that carry an identifier
WithIdentifier == {k \in DOMAIN saveArg : Truthy(saveArg[k].transaction_id)}

\* C21: upsert returns the count of records written: the number of input
\* records that have an identifier, each of which is inserted or updated by
\* the call; records lacking an identifier are skipped, neither written nor
\* counted, and an empty input returns 0 without touching the store.
C21_ReturnsCountWritten ==
    /\ [](~saveResult.raised =>
            /\ saveResult.count = Cardinality(WithIdentifier)
            /\ \A k \in WithIdentifier :
                  \E row \in table :
                     /\ row.transaction_id = saveArg[k].transaction_id
                     /\ MutableColumns(row) = ColumnsOf(saveArg[k])
                     /\ row.updated_at = dbClock)
    /\ [](\A row \in table : Truthy(row.transaction_id))
    /\ [][(saves' = saves + 1 /\ saveArg' = << >>)
            => (/\ saveResult' = [raised |-> FALSE, count |-> 0]
                /\ UNCHANGED <<table, dbClock, lastUpsert>>)]_vars

\* a batch of a record without identifier and a record of tx1 returned 1
\* and updated the row of tx1 written before
C21_Witness ==
    /\ saveArg = <<Valid0, Valid1b>>
    /\ saveResult = [raised |-> FALSE, count |-> 1]
    /\ Cardinality(table) = 1
    /\ \E row \in table :
          /\ row.transaction_id = Tx1
          /\ MutableColumns(row) = ColumnsOf(Valid1b)
          /\ row.created_at < row.updated_at

----------------------------------------------------------------------------
(* Properties of the fetch client *)

\* the call got past the token exchange: `backoff = 1.0` was executed
LoopEntered == backoff > 0

\* the step belongs to the call in progress (it does not start a new call)
SameCall == calls' = calls

\* C2: one call to list_transactions_real issues at most max_retries GET
\* requests; when every attempt of the call ended in a retry (429, 5xx or
\* the first 401) and the bound is used up, the call raises the
\* retries-exhausted RuntimeError; no request is issued after that error.
C2_AttemptBound ==
    /\ [](client = "real" => gets <= maxRetries /\ gets = attempt)
    /\ []((client = "real" /\ LoopEntered /\ allRetried /\ attempt = maxRetries)
            => (fpc = "raised" /\ outcome = "RuntimeError"))
    /\ []((client = "real" /\ outcome = "RuntimeError")
            => (allRetried /\ attempt = maxRetries))
    /\ [][(outcome = "RuntimeError" /\ SameCall) => gets' = gets]_vars

C2_Witness ==
    /\ client = "real"
    /\ maxRetries = DEFAULT_MAX_RETRIES
    /\ gets = DEFAULT_MAX_RETRIES
    /\ outcome = "RuntimeError"
    /\ n401 = 1
    /\ nBackoffRetries = DEFAULT_MAX_RETRIES - 1

\* C3: within one fetch call a 401 triggers at most one credential refresh,
\* so the token endpoint is called at most twice (the initial exchange and
\* one refresh).
C3_RefreshAtMostOnce ==
    /\ refreshes <= 1
    /\ tokenPosts <= 2
    /\ (client = "real" /\ LoopEntered) => tokenPosts = 1 + refreshes
    /\ tokenRefreshed => refreshes = 1

C3_Witness ==
    /\ client = "real"
    /\ n401 = 2
    /\ refreshes = 1
    /\ tokenPosts = 2

\* C4: a second 401 in the same fetch call, directly after the refresh or
\* after 429/5xx retries in between, ends the call with the propagated
\* HTTP error of that 401, not the retries-exhausted error; no refresh, no
\* sleep and no request follow it.
C4_Second401Fatal ==
    /\ [](n401 <= 2)
    /\ [](n401 = 2 => /\ fpc = "raised"
                      /\ outcome = "HTTPError"
                      /\ errStatus = 401
                      /\ lastStatus = 401
                      /\ lastSleep = -1
                      /\ refreshes = 1)
    /\ [][(n401 = 2 /\ SameCall) => UNCHANGED <<gets, sleeps, tokenPosts, refreshes>>]_vars

C4_Witness ==
    /\ n401 = 2
    /\ nBackoffRetries >= 2
    /\ attempt = maxRetries
    /\ outcome = "HTTPError"

\* C5: a 429 carrying Retry-After = r makes the client sleep r before its
\* next request; a 429 without Retry-After makes it sleep the current
\* backoff value; in both cases the next request follows if attempts remain
\* (and the retries-exhausted error if none does).
Throttled(ra) ==
    /\ client = "real"
    /\ gets' = gets + 1
    /\ lastStatus' = 429
    /\ lastRetryAfter' = ra

C6_Backoff ==
    /\ [](LoopEntered => Sec(BackoffStart) <= backoff /\ backoff <= Sec(BackoffCeiling))
    /\ [][(SameCall /\ LoopEntered) => backoff' >= backoff]_vars
    /\ [][(SameCall /\ sleeps' = sleeps + 1 /\ lastStatus' # 401)
            => backoff' = Min(2 * backoff, Sec(BackoffCeiling))]_vars
    /\ []((client = "real" /\ only5xx /\ attempt >= 1)
            => lastSleep = Min(Sec(2 ^ (attempt - 1)), Sec(BackoffCeiling)))

C6_Witness ==
    /\ client = "real"
    /\ only5xx
    /\ attempt = 7
    /\ lastSleep = Sec(BackoffCeiling)
    /\ backoff = Sec(BackoffCeiling)

\* C7: a response with a non-success (non-2xx) status other than 429, 5xx
\* and the first 401 ends the fetch at once with a propagated error that
\* carries the status, without sleep or credential refresh.
C7_OtherStatusFatal ==
    (/\ client = "real"
     /\ gets >= 1
     /\ lastStatus # 0
     /\ ~(200 <= lastStatus /\ lastStatus < 300)
     /\ lastStatus # 429
     /\ ~IsServerError(lastStatus)
     /\ ~(lastStatus = 401 /\ n401 = 1))
        => /\ fpc = "raised"
           /\ outcome = "HTTPError"
           /\ errStatus = lastStatus
           /\ lastSleep = -1

\* C8 as stated: a malformed sinceTimestamp makes fetch (real and mock) fail
\* with the parameter error before any network activity.
Malformed(s) ==
    \/ ~s.isStr
    \/ s.date = "invalid"
    \/ s.time = "invalid"
    \/ s.tz = "junk"

NoNetworkActivity == gets = 0 /\ tokenPosts = 0 /\ sleeps = 0 /\ attempt = 0

C15_RefreshThenSuccess ==
    (/\ client = "real"
     /\ maxRetries = DEFAULT_MAX_RETRIES
     /\ gets = 2
     /\ n401 = 1
     /\ nBackoffRetries = 0
     /\ lastStatus = 200
     /\ lastBody # "invalid")
        => /\ refreshes = 1
           /\ tokenPosts = 2
           /\ lastGetToken = 2
           /\ token = 2
           /\ sleeps = 0
           /\ attempt = 2
           /\ fpc = "returned"
           /\ outcome = IF lastBody = "empty" THEN "ok_empty" ELSE "ok_data"

C15_Witness ==
    /\ client = "real"
    /\ maxRetries = DEFAULT_MAX_RETRIES
    /\ gets = 2
    /\ n401 = 1
    /\ lastStatus = 200
    /\ lastBody = "transactions"
    /\ refreshes = 1
    /\ lastGetToken = 2
    /\ sleeps = 0
    /\ outcome = "ok_data"

\* C16: a 2xx response whose transactions list is empty or missing makes
\* fetch return a normal result with an empty transactions list instead of
\* raising, whatever retries preceded it; the outcome differs from every
\* fatal outcome, which are all raised errors.
C16_EmptySuccess ==
    /\ (/\ client = "real"
        /\ gets >= 1
        /\ 200 <= lastStatus /\ lastStatus < 300
        /\ lastBody = "empty")
          => (fpc = "returned" /\ outcome = "ok_empty")
    /\ (client = "mock" /\ lastStatus = 200 /\ lastBody = "empty")
          => (fpc = "returned" /\ outcome = "ok_empty")
    /\ fpc = "returned" => outcome \in {"ok_empty", "ok_data"}
    /\ fpc = "raised" => outcome \notin {"ok_empty", "ok_data", "none"}
    /\ outcome = "ok_empty" => (fpc = "returned" /\ errStatus = 0)

\* an empty 200 after a refreshed 401 and two backoff retries
C16_Witness ==
    /\ client = "real"
    /\ lastStatus = 200
    /\ lastBody = "empty"
    /\ n401 = 1
    /\ nBackoffRetries = 2
    /\ outcome = "ok_empty"
    /\ fpc = "returned"

\* the call is over
Terminated == fpc \in {"returned", "raised"}

\* C25: every fetch call eventually ends by returning or raising, for every
\* sequence of responses (endless 429 or 5xx, and any mix of them with a
\* 401), when each request, token exchange and sleep returns: every iteration
\* uses up one of max_retries attempts, and a call in its loop has attempts
\* left.
C25_FetchTerminates ==
    /\ [](fpc = "requesting" => attempt < maxRetries)
    /\ [][fpc = "requesting" => attempt' = attempt + 1]_fetchVars
    /\ (fpc = "requesting") ~> Terminated

\* a call of the real client used up the default budget on one 401 and
\* five 429 or 5xx responses, the last of them a 503
C25_Witness ==
    /\ client = "real"
    /\ maxRetries = DEFAULT_MAX_RETRIES
    /\ fpc = "raised" /\ outcome = "RuntimeError"
    /\ n401 = 1
    /\ nBackoffRetries = DEFAULT_MAX_RETRIES - 1
    /\ lastStatus = 503

\* C28: a credential refresh triggered by a 401 uses up one attempt, causes
\* no sleep and leaves the backoff unchanged; a first 401 on the last allowed
\* attempt is followed by the refresh and then by the retries-exhausted
\* error, and no request carries the refreshed token.
C28_RefreshCostsOneAttempt ==
    /\ [][(client = "real" /\ fpc = "requesting" /\ refreshes' = refreshes + 1) =>
            /\ attempt' = attempt + 1
            /\ sleeps' = sleeps /\ lastSleep' = -1
            /\ backoff' = backoff
            /\ gets' = gets + 1
            /\ (tokenRefreshed' /\ attempt' = maxRetries) =>
                  /\ fpc' = "raised" /\ outcome' = "RuntimeError"
                  /\ token' # lastGetToken']_vars
    /\ [](client = "real" /\ tokenRefreshed /\ lastStatus = 401 /\ n401 = 1 =>
             /\ refreshes = 1
             /\ lastGetToken # token
             /\ attempt = maxRetries => (fpc = "raised" /\ outcome = "RuntimeError"))

\* the sixth and last attempt of a call received the first 401: the token was
\* exchanged again, nothing was sent with the new token and the call raised
\* the retries-exhausted error
C28_Witness ==
    /\ client = "real"
    /\ maxRetries = DEFAULT_MAX_RETRIES
    /\ attempt = maxRetries /\ gets = maxRetries
    /\ lastStatus = 401 /\ n401 = 1 /\ refreshes = 1
    /\ token = 2 /\ lastGetToken = 1
    /\ sleeps = maxRetries - 1 /\ lastSleep = -1
    /\ fpc = "raised" /\ outcome = "RuntimeError"

\* the status is one the client retries after a wait
IsRetriedStatus(status) == status = 429 \/ (500 <= status /\ status < 600)

\* C29: the client sleeps after every 429 or 5xx response, the one of the
\* last allowed attempt included: the sleeps of a fetch are as many as the
\* 429 and 5xx responses it received, so the retries-exhausted error that
\* follows such a response comes after a final wait.
C29_SleepsAfterEveryRetriedResponse ==
    [][(client = "real" /\ fpc = "requesting" /\ gets' = gets + 1) =>
          IF IsRetriedStatus(lastStatus')
          THEN sleeps' = sleeps + 1 /\ lastSleep' >= 0
          ELSE sleeps' = sleeps]_vars

\* 2^k
RECURSIVE Pow2(_)
Pow2(k) == IF k = 0 THEN 1 ELSE 2 * Pow2(k - 1)

\* C30: a 429 waited out with the server's Retry-After value doubles the
\* client's backoff all the same: after k retried 429 and 5xx responses the
\* backoff is min(2^k, 60) seconds, whichever of them carried Retry-After,
\* and a wait without Retry-After lasts the backoff that the count of all
\* earlier retried responses gives.
C30_BackoffCountsEveryRetry ==
    /\ [](client = "real" /\ backoff # 0 =>
             backoff = Min(Sec(Pow2(nBackoffRetries)), Sec(BackoffCeiling)))
    /\ [][(/\ client = "real" /\ fpc = "requesting"
           /\ nBackoffRetries' = nBackoffRetries + 1
           /\ lastRetryAfter'.kind # "num") =>
              lastSleep' = Min(Sec(Pow2(nBackoffRetries)), Sec(BackoffCeiling))]_vars

\* the second retried response was a 429 waited out with Retry-After: 0, and
\* the backoff is 4 seconds
C30_Witness ==
    /\ client = "real"
    /\ nBackoffRetries = 2
    /\ lastStatus = 429
    /\ lastRetryAfter = RetryAfter("num", 0)
    /\ lastSleep = 0
    /\ backoff = Sec(4)

----------------------------------------------------------------------------
(* Properties of the validator *)

Range(q) == {q[k] : k \in DOMAIN q}

\* items of the batch that have an entry in the error list
RejectedItems == {errors[k].item : k \in DOMAIN errors}

\* the item carries an identifier that an earlier item of the batch carries
RepeatsEarlierId(j) ==
    /\ Truthy(vrows[j].transaction_id)
    /\ \E i \in 1..(j - 1) : vrows[i].transaction_id = vrows[j].transaction_id

\* the first item of the batch that carries the identifier
FirstItemOf(tid) ==
    CHOOSE j \in DOMAIN vrows :
        /\ vrows[j].transaction_id = tid
        /\ \A i \in 1..(j - 1) : vrows[i].transaction_id # tid

\* the valid row that comes from item j, when item j is accepted
Accepted(j) ==
    ProcessedRow(vrows[j], ParseIsoZ(vrows[j].posted_date_raw, localUtcOffset))

\* C9: in validate's valid output every identifier appears at most once;
\* every record whose identifier appeared earlier in the batch is absent
\* from the valid output and has an error entry tagged as a duplicate, so
\* only the first occurrence of an identifier can survive.
C9_DuplicatesRejected ==
    vpc = "returned" =>
        /\ \A a, b \in DOMAIN valid :
              a # b => valid[a].transaction_id # valid[b].transaction_id
        /\ \A j \in DOMAIN vrows :
              RepeatsEarlierId(j) =>
                  Entry(j, vrows[j].transaction_id, "duplicate") \in Range(errors)
        /\ \A a \in DOMAIN valid :
              valid[a] = Accepted(FirstItemOf(valid[a].transaction_id))
        /\ Len(valid) + Cardinality({j \in DOMAIN vrows : RepeatsEarlierId(j)})
              <= Len(vrows)

C9_Witness ==
    /\ vpc = "returned"
    /\ Len(vrows) = 2
    /\ vrows[1].transaction_id = vrows[2].transaction_id
    /\ vrows[1] # vrows[2]
    /\ Len(valid) = 1
    /\ valid[1].raw = vrows[1].raw
    /\ Len(errors) = 1
    /\ errors[1].kind = "duplicate"
    /\ ~ParseIsoZRaises(vrows[2].posted_date_raw)
    /\ ParseIsoZ(vrows[2].posted_date_raw, localUtcOffset) <= vnow

\* the item has a timestamp that parses
HasInstant(j) ==
    /\ TruthyPosted(vrows[j].posted_date_raw)
    /\ ~ParseIsoZRaises(vrows[j].posted_date_raw)

InstantOf(j) == ParseIsoZ(vrows[j].posted_date_raw, localUtcOffset)

\* C10: a record whose parsed posted timestamp is strictly greater than the
\* validation time is rejected (an entry in the error list, no row in the
\* valid output); a record posted exactly at the validation time is not
\* rejected for its timestamp and is accepted when nothing else is wrong
\* with it; every valid row has posted_at <= now, the one `now` of the call.
C10_FutureRejected ==
    vpc = "returned" =>
        /\ vnow = clock
        /\ \A j \in DOMAIN vrows :
              (HasInstant(j) /\ InstantOf(j) > vnow) =>
                  /\ j \in RejectedItems
                  /\ Accepted(j) \notin Range(valid)
        /\ \A j \in DOMAIN vrows :
              (HasInstant(j) /\ InstantOf(j) = vnow) =>
                  /\ Entry(j, vrows[j].transaction_id, "future") \notin Range(errors)
                  /\ j \notin RejectedItems => Accepted(j) \in Range(valid)
        /\ \A j \in DOMAIN vrows :
              (/\ HasInstant(j) /\ InstantOf(j) = vnow
               /\ Truthy(vrows[j].transaction_id) /\ ~RepeatsEarlierId(j)
               /\ vrows[j].currency_code = USD) => j \notin RejectedItems
        /\ \A a \in DOMAIN valid : valid[a].posted_date <= vnow

\* a batch of a record posted one second after now and a record posted now:
\* the first is rejected as future-dated, the second is the valid output
C10_Witness ==
    /\ vpc = "returned"
    /\ vnow = T0 + 1
    /\ Len(vrows) = 2
    /\ vrows[1].posted_date_raw = PostedZ(vnow + 1)
    /\ vrows[2].posted_date_raw = PostedZ(vnow)
    /\ errors = <<Entry(1, vrows[1].transaction_id, "future")>>
    /\ Len(valid) = 1
    /\ valid[1].posted_date = vnow
    /\ valid[1].transaction_id = vrows[2].transaction_id

\* the item gets as far as line 118: it has an identifier that no earlier
\* item carries and a timestamp that parses and is not in the future
PassesIdAndTimestampChecks(j) ==
    /\ Truthy(vrows[j].transaction_id)
    /\ ~RepeatsEarlierId(j)
    /\ HasInstant(j)
    /\ InstantOf(j) <= vnow

\* entries of the list `log` about item j with the message `kind`
EntriesOf(log, j, kind) == {k \in DOMAIN log : log[k].item = j /\ log[k].kind = kind}

\* C11: validate never raises, for any batch of normalized records; problems
\* are reported only in the error and warning lists, and a batch of which
\* every record is invalid returns an empty valid list and a non-empty error
\* list.
C11_ValidateNeverRaises ==
    /\ vpc # "raised"
    /\ (vpc = "returned" /\ vrows # << >> /\ RejectedItems = DOMAIN vrows)
          => (valid = << >> /\ errors # << >>)

\* exactly three letters A-Z
ExactlyThreeUpper(chars) == Len(chars) = 3 /\ \A k \in 1..3 : IsUpper(chars[k])

\* C17: a record is rejected with an invalid-currency error exactly when its
\* currency code is present and is not exactly three uppercase letters A-Z; a
\* record without a currency code is never rejected for its currency.
C17_CurrencyRule ==
    vpc = "returned" =>
        \A j \in DOMAIN vrows :
            PassesIdAndTimestampChecks(j) =>
                ((EntriesOf(errors, j, "invalid_currency") # {})
                    <=> (/\ Truthy(vrows[j].currency_code)
                         /\ ~(/\ vrows[j].currency_code.kind = "str"
                              /\ ExactlyThreeUpper(vrows[j].currency_code.v))))

\* the type tag equals "refund" when the case of its letters is ignored
IsRefundType(t) ==
    /\ t.kind = "str"
    /\ Len(t.v) = 6
    /\ \A k \in 1..6 :
          t.v[k] \in {<<"r", "e", "f", "u", "n", "d">>[k], <<"R", "E", "F", "U", "N", "D">>[k]}

\* C18: a record that is not rejected, whose type equals "refund" in any
\* case of letters and whose amount is strictly positive, produces exactly
\* one refund-sign warning and is in the valid output; with a negative, zero
\* or absent amount, or with any other type, it produces no such warning.
C18_RefundSignWarning ==
    vpc = "returned" =>
        \A j \in DOMAIN vrows :
            IF /\ j \notin RejectedItems
               /\ IsRefundType(vrows[j].type)
               /\ ~vrows[j].amount.null
               /\ vrows[j].amount.cents > 0
            THEN /\ Cardinality(EntriesOf(warnings, j, "refund_sign")) = 1
                 /\ Accepted(j) \in Range(valid)
            ELSE EntriesOf(warnings, j, "refund_sign") = {}

\* a positive refund whose type is written in capitals: it is valid and has
\* the warning
C18_Witness ==
    /\ vpc = "returned"
    /\ Len(vrows) = 1
    /\ vrows[1].type = Str(<<"R", "E", "F", "U", "N", "D">>)
    /\ vrows[1].amount = Amount(1999)
    /\ warnings = <<Entry(1, Tx1, "refund_sign")>>
    /\ valid = <<Accepted(1)>>

\* C19: a record that passes the identifier and timestamp checks and whose
\* posted timestamp is older than 370 days (now - posted_at > 370 days)
\* produces an unusually-old warning and is accepted; a record that is 370
\* days old or younger produces no such warning.
C19_OldWarning ==
    vpc = "returned" =>
        \A j \in DOMAIN vrows :
            PassesIdAndTimestampChecks(j) =>
                IF vnow - InstantOf(j) > OldDays * SecondsPerDay
                THEN /\ EntriesOf(warnings, j, "old") # {}
                     /\ j \notin RejectedItems => Accepted(j) \in Range(valid)
                ELSE EntriesOf(warnings, j, "old") = {}

\* C24: warnings are emitted only for accepted records: every entry of
\* validate's warning list refers to a record that is in the valid output, so
\* no record has both a warning and a rejection.
C24_WarningsOnlyForAccepted ==
    vpc = "returned" =>
        \A k \in DOMAIN warnings :
            /\ warnings[k].item \notin RejectedItems
            /\ Accepted(warnings[k].item) \in Range(valid)

\* the processed rows of the items 1..n that have no entry in the error list,
\* in the order of the batch
RECURSIVE AcceptedUpTo(_)
AcceptedUpTo(n) ==
    IF n = 0 THEN << >>
    ELSE IF n \in RejectedItems THEN AcceptedUpTo(n - 1)
    ELSE Append(AcceptedUpTo(n - 1), Accepted(n))

\* C26: validate yields exactly one outcome per input record: a record is
\* either once in the valid output or has exactly one entry in the error
\* list, never both and never neither, so len(valid) + len(errors) =
\* len(input), and the valid output keeps the order of the input.
C26_OneOutcomePerRecord ==
    vpc = "returned" =>
        /\ Len(valid) + Len(errors) = Len(vrows)
        /\ \A j \in DOMAIN vrows :
              Cardinality({k \in DOMAIN errors : errors[k].item = j}) <= 1
        /\ RejectedItems \subseteq DOMAIN vrows
        /\ valid = AcceptedUpTo(Len(vrows))

\* a batch whose first record is rejected for a future timestamp and whose
\* second record is accepted
C26_Witness ==
    /\ vpc = "returned"
    /\ Len(vrows) = 2
    /\ errors = <<Entry(1, Tx1, "future")>>
    /\ valid = <<Accepted(2)>>
    /\ valid[1].transaction_id = Tx2

\* the item has an error entry for its timestamp or its currency
RejectedAfterRegistration(j) ==
    \E kind \in {"missing_date", "bad_date", "future", "invalid_currency"} :
        EntriesOf(errors, j, kind) # {}

\* C27: an identifier is registered before the timestamp and currency
\* checks: when its first occurrence is rejected for its timestamp or its
\* currency, every later occurrence is rejected as a duplicate, and the
\* identifier has no record in the valid output.
C27_RegisteredBeforeLaterChecks ==
    vpc = "returned" =>
        \A j \in DOMAIN vrows :
            RejectedAfterRegistration(j) =>
                /\ j = FirstItemOf(vrows[j].transaction_id)
                /\ \A i \in (j + 1)..Len(vrows) :
                      vrows[i].transaction_id = vrows[j].transaction_id =>
                          Entry(i, vrows[i].transaction_id, "duplicate") \in Range(errors)
                /\ \A v \in Range(valid) : v.transaction_id # vrows[j].transaction_id

\* the first record of tx1 has an invalid currency code and the second,
\* otherwise valid, record of tx1 is rejected as a duplicate
C27_Witness ==
    /\ vpc = "returned"
    /\ Len(vrows) = 2
    /\ vrows[2] = NormalizedRow(Tx1, PostedZ(T0 - 3600), Order, USD, Amount(1999), "a")
    /\ errors = <<Entry(1, Tx1, "invalid_currency"), Entry(2, Tx1, "duplicate")>>
    /\ valid = << >>

----------------------------------------------------------------------------
(* Properties of normalize_transactions *)

\* the amount is a decimal numeral
IsNumeral(a) == a.kind \in {"dec", "huge"}

\* C20: normalize maps a missing, empty or unparsable amount to an absent
\* amount, never to zero, and still emits the record; a parsable amount is
\* kept as a decimal rounded to 2 fractional digits (the nearest number of
\* cents).
C20_AmountNormalization ==
    npc # "idle" =>
        /\ npc = "returned"
        /\ Len(nrows) = Len(npayload)
        /\ \A k \in DOMAIN npayload :
              /\ nrows[k].transaction_id = npayload[k].transactionId
              /\ IF IsNumeral(AmountStrOf(npayload[k]))
                 THEN /\ ~nrows[k].amount.null
                      /\ ~nrows[k].amount.nan
                      /\ AmountStrOf(npayload[k]).kind = "dec" =>
                            (10 * nrows[k].amount.cents - AmountStrOf(npayload[k]).mills)
                                \in (0 - 5)..5
                 ELSE nrows[k].amount = NoAmount

----------------------------------------------------------------------------
(* Properties of a pipeline run *)

\* C22: end to end, whatever the current time of the run, the two-record
\* sample batch of the mock client (tx-mock-001, an Order of 19.99 USD, and
\* tx-mock-002, a Refund of -5.00 USD, both posted 2025-08-30) gives 2 valid
\* records, 0 errors and 0 warnings, and, once saved, 2 stored rows that are
\* retrieved by their identifiers.
C22_MockSampleEndToEnd ==
    (client = "mock" /\ apiData = MockOk /\ mpc \in {"validated", "saved", "completed"}) =>
        /\ Len(valid) = 2
        /\ errors = << >>
        /\ warnings = << >>
        /\ mpc \in {"saved", "completed"} =>
              /\ Cardinality(savedData) = 2
              /\ {r.transaction_id : r \in savedData} = {MockTx1, MockTx2}
              /\ \A r \in savedData : \E row \in table : row.transaction_id = r.transaction_id

\* the row is what the store holds for the record
Persists(row, tx) ==
    /\ row.transaction_id = tx.transaction_id
    /\ MutableColumns(row) = ColumnsOf(tx)

\* C23: in a pipeline run the store is written only after the fetch
\* succeeded and validation finished, and with exactly the validator's valid
\* records: no rejected record is persisted, nothing is written when the
\* fetch ended by raising, and when validation leaves no valid record the
\* store is not called and the run still completes without raising.
C23_StoreWrittenAfterValidation ==
    /\ [][(table' # table \/ saves' # saves) =>
            /\ mpc = "validated" /\ fpc = "returned" /\ vpc = "returned"
            /\ valid # << >>
            /\ saveArg' = valid]_vars
    /\ [](/\ \A row \in table : \E k \in DOMAIN valid : Persists(row, valid[k])
          /\ mpc \in {"saved", "completed"} =>
                \A k \in DOMAIN valid : \E row \in table : Persists(row, valid[k])
          /\ \A j \in RejectedItems :
                \A row \in table : row.raw # Jsonb(vrows[j].raw))
    /\ [](fpc = "raised" => (table = {} /\ saves = 0 /\ mpc \in {"fetching", "failed"}))
    /\ []((vpc = "returned" /\ valid = << >>) =>
             (saves = 0 /\ table = {} /\ mpc \in {"validated", "skipped", "completed"}))
    /\ [][mpc = "skipped" => mpc' = "completed"]_vars

\* a run of the real client completed: of two delivered records the first
\* was rejected for its currency and the second alone is in the store
C23_Witness ==
    /\ mpc = "completed"
    /\ client = "real"
    /\ Len(apiData) = 2
    /\ errors = <<Entry(1, Tx1, "invalid_currency")>>
    /\ Len(valid) = 1
    /\ Cardinality(table) = 1
    /\ \A row \in table : row.transaction_id = Tx2

====
